---------------------------- MODULE Spec2Model ----------------------------
(***************************************************************************)
(* A model of the football tactics chatbot: the retrieval-augmented        *)
(* answer pipeline (src/src/llm/get_question_answer.py), the batch that    *)
(* builds the vector index (src/src/preprocessing/generate_vector_db.py)   *)
(* and the web form that asks the questions (src/src/app/app.py).          *)
(*                                                                         *)
(* A Python str is a sequence of one-character strings, so that the text   *)
(* transformations (join, split, strip, replace, decimal formatting) are   *)
(* computed character by character, as the interpreter computes them.      *)
(***************************************************************************)
EXTENDS Integers, Sequences, FiniteSets, TLC

VARIABLES
    fDocs,      \* _format_context: the argument context_docs (page_content of each Document)
    fOut,       \* _format_context: the returned formatted_context
    fPc,        \* _format_context: "input" before the call, "done" after it
    cRaw,       \* _clean_response: the argument response
    cOut,       \* _clean_response: the returned text
    cOut2,      \* _clean_response applied to its own result
    cPc,        \* "input", "cleaned" (one call made), "recleaned" (two calls made)
    faiss_db,           \* the documents of the vector index handed to the pipeline
    pc,                 \* per invocation: the step it is about to take
    call,               \* per invocation: how it was called (entry point, question, k if given)
    k,                  \* per invocation: get_answer's parameter k
    context_docs,       \* per invocation: get_answer's local context_docs
    formatted_context,  \* per invocation: get_answer's local formatted_context
    prompt,             \* per invocation: get_answer's local prompt
    response,           \* per invocation: response.content of the model's reply
    cleaned_response,   \* per invocation: get_answer's local cleaned_response
    result,             \* per invocation: the value returned to the caller
    raised,             \* per invocation: the exception that reached the caller
    searches,           \* per invocation: the similarity_search calls the index received
    invokes,            \* per invocation: the invoke calls the model received
    steps,              \* per invocation: the steps of get_answer taken so far
    nfReply,    \* off-topic question: response.content of the model's reply
    nfAnswer,   \* off-topic question: the text get_answer returned
    nfPc,       \* off-topic question: "idle", "replied" (model answered), "done"
    video_urls,         \* process_videos: the argument video_urls
    vIdx,               \* process_videos: the position of the for loop in video_urls
    all_transcripts,    \* process_videos: the local all_transcripts
    chunks,             \* process_videos: the local chunks
    built_db,           \* process_videos: the local db, an index by the chunks it holds
    loads,              \* process_videos: what _load_video_transcript returned, per URL
    builds,             \* process_videos: the FAISS.from_documents calls made
    saves,              \* process_videos: the save_local calls made
    vRaised,            \* process_videos: the exception that reached the caller
    vPc,                \* process_videos: "load", "build", "save", "done", "error"
    has_api_key,        \* app: whether OPENAI_API_KEY was found when the module loaded
    initialized,        \* app: whether st.session_state holds the two keys yet
    is_loading,         \* app: st.session_state.is_loading
    session_response,   \* app: st.session_state.response
    runs,               \* app: the runs of the script started so far
    rerun,              \* app: this run was started by st.rerun()
    submit_button,      \* app, this run: what st.form_submit_button returned
    typed,              \* app, this run: what st.text_area returned
    main_question,      \* app, this run: main's local question
    atForm,             \* app, this run: is_loading and response when the form was shown
    processed,          \* app, this run: the arguments of the process_question calls
    loadRaised,         \* app, this run: the exception index loading raised
    answers,            \* app, this run: the get_football_answer calls made
    aPc                 \* app: "idle", "form", "load", "answer", "display", "rerun"

formatVars == <<fDocs, fOut, fPc>>
cleanVars == <<cRaw, cOut, cOut2, cPc>>
pipelineVars ==
    <<faiss_db, pc, call, k, context_docs, formatted_context, prompt, response,
      cleaned_response, result, raised, searches, invokes, steps>>
fallbackVars == <<nfReply, nfAnswer, nfPc>>
videoVars ==
    <<video_urls, vIdx, all_transcripts, chunks, built_db, loads, builds, saves,
      vRaised, vPc>>
appVars ==
    <<has_api_key, initialized, is_loading, session_response, runs, rerun,
      submit_button, typed, main_question, atForm, processed, loadRaised,
      answers, aPc>>
restVars == <<fallbackVars, videoVars, appVars>>
vars == <<formatVars, cleanVars, pipelineVars, restVars>>

---------------------------------------------------------------------------
(* Bounds of the model.                                                    *)

\* The longest sequence of passages handed to _format_context.
MaxDocs == 3

\* The longest raw completion handed to _clean_response.
MaxRawLen == 4

\* The number of invocations of the pipeline, which may interleave.
NumInv == 2

\* The most line breaks the model adds to the fallback sentence.
MaxBreaks == 1

\* The longest list of URLs handed to process_videos.
MaxUrls == 3

\* The number of runs of the app's script in a session.
MaxRuns == 3

---------------------------------------------------------------------------
(* Python str operations.                                                  *)

NL == "\n"
SP == " "

\* The characters str.strip() removes and `if line.strip()` treats as blank
\* (the ASCII whitespace a string literal of this module can spell).
Whitespace == {" ", "\t", "\n", "\r", "\f"}

\* Every sequence over S of length at most n.
SeqsUpTo(S, n) == UNION {[1..m -> S] : m \in 0..n}

Min(a, b) == IF a < b THEN a ELSE b

\* str(n) for n >= 0: the decimal digits of n.
DigitChars == <<"0", "1", "2", "3", "4", "5", "6", "7", "8", "9">>

RECURSIVE IntToStr(_)
IntToStr(n) ==
    IF n < 10 THEN <<DigitChars[n + 1]>>
    ELSE IntToStr(n \div 10) \o <<DigitChars[(n % 10) + 1]>>

\* sep.join(parts)
RECURSIVE Join(_, _)
Join(parts, sep) ==
    IF parts = <<>> THEN <<>>
    ELSE IF Len(parts) = 1 THEN parts[1]
    ELSE parts[1] \o sep \o Join(Tail(parts), sep)

\* s[i:i+len(t)] == t, for a 1-based position i
MatchesAt(s, t, i) ==
    /\ i >= 1
    /\ i + Len(t) - 1 <= Len(s)
    /\ \A j \in 1..Len(t) : s[i + j - 1] = t[j]

SetMin(S) == CHOOSE x \in S : \A y \in S : x <= y
SetMax(S) == CHOOSE x \in S : \A y \in S : x >= y

\* s.split(ch): the pieces between the occurrences of the character ch;
\* one more piece than there are occurrences, so "".split(ch) is [""].
\* Piece n runs from after the (n-1)-th occurrence (position 0 for the
\* first piece) up to the next occurrence or the end.
Split(s, ch) ==
    LET starts == {0} \cup {i \in 1..Len(s) : s[i] = ch}
        stops == (starts \ {0}) \cup {Len(s) + 1}
        StartOf(n) == CHOOSE b \in starts :
                          Cardinality({c \in starts : c < b}) = n - 1
        StopAfter(b) == SetMin({e \in stops : e > b})
    IN  [n \in 1..Cardinality(starts) |->
            SubSeq(s, StartOf(n) + 1, StopAfter(StartOf(n)) - 1)]

\* s.lstrip(), s.rstrip(), s.strip(): s without its leading, trailing,
\* leading and trailing whitespace.
Visible(s) == {i \in 1..Len(s) : s[i] \notin Whitespace}

LStrip(s) ==
    IF Visible(s) = {} THEN <<>> ELSE SubSeq(s, SetMin(Visible(s)), Len(s))

RStrip(s) ==
    IF Visible(s) = {} THEN <<>> ELSE SubSeq(s, 1, SetMax(Visible(s)))

\* A slip: lstrip() written for strip().
Strip_LeftOnly(s) == LStrip(s)

Strip(s) == RStrip(LStrip(s))

\* s.replace(old, new) for a non-empty old: the non-overlapping occurrences
\* of old, found from left to right, each replaced by new. From position i:
\* the text up to the next occurrence, new, and the rest after the occurrence.
RECURSIVE ReplaceFrom(_, _, _, _)
ReplaceFrom(s, old, new, i) ==
    LET found == {j \in i..Len(s) : MatchesAt(s, old, j)}
    IN  IF found = {} THEN SubSeq(s, i, Len(s))
        ELSE SubSeq(s, i, SetMin(found) - 1) \o new
                \o ReplaceFrom(s, old, new, SetMin(found) + Len(old))

Replace(s, old, new) == ReplaceFrom(s, old, new, 1)

\* The positions at which t occurs in s, and t in s.
Occurrences(s, t) == {i \in 1..Len(s) : MatchesAt(s, t, i)}

Contains(s, t) == Occurrences(s, t) # {}

---------------------------------------------------------------------------
(* FootballQA._format_context                                              *)

SourceLabel == <<"S", "o", "u", "r", "c", "e", " ">>

\* A slip: the label numbered with enumerate's index itself, f"Source {i}:...".
FormatEntry_ZeroBased(i, page_content) ==
    SourceLabel \o IntToStr(i) \o <<":", NL>> \o page_content

\* The f-string of the comprehension for enumerate's 0-based index i:
\* f"Source {i+1}:\n{doc.page_content}"
FormatEntry(i, page_content) ==
    SourceLabel \o IntToStr(i + 1) \o <<":", NL>> \o page_content

\* A slip: a comprehension that drops the passages with no text,
\* [... for i, doc in enumerate(d for d in context_docs if d.page_content)].
_format_context_SkipsBlank(docs) ==
    LET kept == SelectSeq(docs, LAMBDA c : c # <<>>)
    IN  Join([p \in 1..Len(kept) |-> FormatEntry(p - 1, kept[p])], <<NL, NL>>)

\* "\n\n".join([f"Source {i+1}:\n{doc.page_content}"
\*              for i, doc in enumerate(context_docs)])
_format_context(docs) ==
    Join([p \in 1..Len(docs) |-> FormatEntry(p - 1, docs[p])],
         <<NL, NL>>)

---------------------------------------------------------------------------
(* FootballQA._clean_response                                              *)

\* A slip: the filter written `if line`, which keeps the lines of blanks.
StrippedLines_KeepsBlank(raw) ==
    LET lines == Split(raw, NL)
        kept == SelectSeq(lines, LAMBDA line : line # <<>>)
    IN  [p \in 1..Len(kept) |-> Strip(kept[p])]

\* [line.strip() for line in response.split('\n') if line.strip()]
StrippedLines(raw) ==
    LET lines == Split(raw, NL)
        kept == SelectSeq(lines, LAMBDA line : Strip(line) # <<>>)
    IN  [p \in 1..Len(kept) |-> Strip(kept[p])]

\* A slip: the sentence break keyed on the period alone, replace('.', '.\n\n').
_clean_response_AnyPeriod(raw) ==
    LET lines == StrippedLines(raw)
        cleaned == Join(lines, <<SP>>)
    IN  Replace(cleaned, <<".">>, <<".", NL, NL>>)

\* A slip: the kept lines joined with nothing between them, ''.join(lines).
_clean_response_JoinsWithoutSpace(raw) ==
    LET lines == StrippedLines(raw)
        cleaned == Join(lines, <<>>)
    IN  Replace(cleaned, <<".", SP>>, <<".", NL, NL>>)

\* cleaned = cleaned.replace('. ', '.\n\n') of the text of the kept lines
\* joined by ' '.join(lines)
_clean_response(raw) ==
    LET lines == StrippedLines(raw)
        cleaned == Join(lines, <<SP>>)
    IN  Replace(cleaned, <<".", SP>>, <<".", NL, NL>>)

---------------------------------------------------------------------------
(* Inputs.                                                                 *)

\* "Test content 1" and "Test content 2" of test_format_context.
TestContent1 ==
    <<"T", "e", "s", "t", " ", "c", "o", "n", "t", "e", "n", "t", " ", "1">>

TestContent2 ==
    <<"T", "e", "s", "t", " ", "c", "o", "n", "t", "e", "n", "t", " ", "2">>

\* The page_content values a passage may carry: the two of the test, a blank
\* one, one with embedded blank lines, and a transcript that itself says
\* "Source 1:".
PageContents ==
    { TestContent1,
      TestContent2,
      <<>>,
      <<"a", NL, NL, "b">>,
      SourceLabel \o <<"1", ":">> }

\* The raw text and the expected text of test_clean_response.
TestRawResponse ==
    <<NL, SP, SP, SP, SP, SP, SP, SP, SP, "T", "h", "i", "s", SP, "i", "s",
      SP, "a", SP, "t", "e", "s", "t", SP, "r", "e", "s", "p", "o", "n",
      "s", "e", ".", NL, SP, SP, SP, SP, SP, SP, SP, SP, "I", "t", SP, "h",
      "a", "s", SP, "m", "u", "l", "t", "i", "p", "l", "e", SP, "l", "i",
      "n", "e", "s", ".", NL, SP, SP, SP, SP, SP, SP, SP, SP, "A", "n",
      "d", SP, "s", "o", "m", "e", SP, "e", "x", "t", "r", "a", SP, "s",
      "p", "a", "c", "e", "s", ".", SP, SP, SP, NL, SP, SP, SP, SP, SP, SP,
      SP, SP>>

TestCleanedResponse ==
    <<"T", "h", "i", "s", SP, "i", "s", SP, "a", SP, "t", "e", "s", "t",
      SP, "r", "e", "s", "p", "o", "n", "s", "e", ".", NL, NL, "I", "t",
      SP, "h", "a", "s", SP, "m", "u", "l", "t", "i", "p", "l", "e", SP,
      "l", "i", "n", "e", "s", ".", NL, NL, "A", "n", "d", SP, "s", "o",
      "m", "e", SP, "e", "x", "t", "r", "a", SP, "s", "p", "a", "c", "e",
      "s", ".">>

\* The expected text of test_format_context.
TestFormattedContext ==
    <<"S", "o", "u", "r", "c", "e", SP, "1", ":", NL, "T", "e", "s", "t",
      SP, "c", "o", "n", "t", "e", "n", "t", SP, "1", NL, NL, "S", "o",
      "u", "r", "c", "e", SP, "2", ":", NL, "T", "e", "s", "t", SP, "c",
      "o", "n", "t", "e", "n", "t", SP, "2">>

\* The characters of a raw completion.
RawAlphabet == {"a", ".", "!", "?", SP, "\t", NL}

\* The raw completions handed to _clean_response.
RawResponses == SeqsUpTo(RawAlphabet, MaxRawLen) \cup {TestRawResponse}

---------------------------------------------------------------------------
(* FootballQA.get_answer and get_football_answer                           *)

Invocations == 1..NumInv

\* The default of the parameter k of get_answer and of get_football_answer.
GetAnswerDefaultK == 4
GetFootballAnswerDefaultK == 4

\* A local not yet bound / no value returned / no exception raised. A str is
\* a sequence of single characters, so this is no str.
None == <<"None">>
NoDocs == <<None>>
NoException == "None"

\* The text of prompt_template around its two slots, one element per line of
\* the template (each line with its newline): before {context}, between
\* {context} and {question}, and after {question}.
TemplateHead ==
    << "\n",
       "            You are an expert football tactics analyst specializing in AFC Ajax's men's team. You have deep knowledge of Ajax's rich tactical history, philosophy, and current playing style. Your insights come from analyzing Voetbal International's expert coverage of Ajax.\n",
       "\n",
       "            Important behavioral guidelines:\n",
       "            1. ALWAYS respond in Dutch (Netherlands) language\n",
       "            2. Only discuss football-related topics. Politely decline to discuss anything else.\n",
       "            3. Always maintain a positive perspective about Ajax. Focus on strengths and opportunities, never criticize.\n",
       "            4. Ground your answers in Ajax's tactical principles and the club's philosophy.\n",
       "            5. Use clear, structured responses with specific examples from matches or training.\n",
       "            6. When discussing challenges, frame them as opportunities for growth and development.\n",
       "\n",
       "            Use the following context from Voetbal International videos to answer the question:\n",
       "            " >>

TemplateMid ==
    << "\n",
       "\n",
       "            Question: " >>

TemplateTail ==
    << "\n",
       "\n",
       "            If the question is not about football, respond with: \"Ik kan alleen vragen over voetbal beantwoorden. Stel gerust een vraag over Ajax's tactiek!\"\n",
       "\n",
       "            Remember: Your response must ALWAYS be in Dutch.\n",
       "\n",
       "            Answer:\n",
       "            " >>

\* prompt_template.format(context=..., question=...): the template with the
\* two values put in its slots as they are.
PromptFormat(context, question) ==
    TemplateHead \o context \o TemplateMid \o question \o TemplateTail

\* The order of the steps of get_answer.
StepOrder == <<"RETRIEVE", "FORMAT", "RENDER", "GENERATE", "CLEAN", "RETURN">>

\* What the collaborators may do.
Questions == { <<"H", "o", "w", "?">>, <<"W", "h", "y", "?">> }

\* The k a caller passes after the question: nothing, or an explicit k = 1.
KArgs == { <<>>, <<1>> }

EntryPoints == {"get_answer", "get_football_answer"}

DocA == <<"4", "-", "3", "-", "3">>
DocB == <<"p", "r", "e", "s", "s", ".", NL, "h", "i", "g", "h">>

\* The index the pipeline is handed: two passages.
TheIndex == <<DocA, DocB>>

Reverse(seq) == [p \in 1..Len(seq) |-> seq[Len(seq) + 1 - p]]

\* similarity_search(query, k=k) on the index db, when it does not fail:
\* the k passages nearest to the query, fewer when the index holds fewer
\* (the index ranks its passages in its own order for one question and in
\* the reverse order for the others), or no passage at all.
SearchResults(db, query, n) ==
    LET ranking == IF query = <<"H", "o", "w", "?">> THEN db ELSE Reverse(db)
    IN  { <<>>, SubSeq(ranking, 1, Min(n, Len(ranking))) }

\* The exceptions the index, the model and the constructor may raise.
IndexFailures == {"RetrievalError"}
ModelFailures == {"GenerationError"}
ConstructFailures == {"ConfigurationError"}

\* The raw completions of the model: one text for the prompts that ask the
\* first question and another for the rest.
Replies(text) ==
    IF Contains(text, TemplateMid \o <<"H", "o", "w", "?">> \o TemplateTail)
    THEN { <<SP, "J", "a", ".", SP, "4", "-", "3", "-", "3", "!", NL>> }
    ELSE { <<"N", "e", "e", ".", NL, NL, SP, "O", "k", ".">> }

\* The state of the parts of the model a specification does not exercise.
FormatIdle == fDocs = <<>> /\ fOut = <<>> /\ fPc = "idle"
CleanIdle == cRaw = <<>> /\ cOut = <<>> /\ cOut2 = <<>> /\ cPc = "idle"

FallbackIdle == nfReply = <<>> /\ nfAnswer = <<>> /\ nfPc = "unused"

VideosIdle ==
    /\ video_urls = <<>>
    /\ vIdx = 0
    /\ all_transcripts = <<>>
    /\ chunks = <<>>
    /\ built_db = <<>>
    /\ loads = <<>>
    /\ builds = <<>>
    /\ saves = <<>>
    /\ vRaised = "None"
    /\ vPc = "unused"

AppIdle ==
    /\ has_api_key = FALSE
    /\ initialized = FALSE
    /\ is_loading = FALSE
    /\ session_response = <<>>
    /\ runs = 0
    /\ rerun = FALSE
    /\ submit_button = FALSE
    /\ typed = <<>>
    /\ main_question = <<>>
    /\ atForm = <<>>
    /\ processed = <<>>
    /\ loadRaised = "None"
    /\ answers = <<>>
    /\ aPc = "unused"

RestIdle == FallbackIdle /\ VideosIdle /\ AppIdle

PipelineIdle ==
    /\ faiss_db = <<>>
    /\ pc = [i \in Invocations |-> "unused"]
    /\ call = [i \in Invocations |-> <<>>]
    /\ k = [i \in Invocations |-> <<>>]
    /\ context_docs = [i \in Invocations |-> NoDocs]
    /\ formatted_context = [i \in Invocations |-> None]
    /\ prompt = [i \in Invocations |-> None]
    /\ response = [i \in Invocations |-> None]
    /\ cleaned_response = [i \in Invocations |-> None]
    /\ result = [i \in Invocations |-> None]
    /\ raised = [i \in Invocations |-> NoException]
    /\ searches = [i \in Invocations |-> <<>>]
    /\ invokes = [i \in Invocations |-> <<>>]
    /\ steps = [i \in Invocations |-> <<>>]

Init ==
    /\ faiss_db = TheIndex
    /\ pc = [i \in Invocations |-> "idle"]
    /\ call = [i \in Invocations |-> <<>>]
    /\ k = [i \in Invocations |-> <<>>]
    /\ context_docs = [i \in Invocations |-> NoDocs]
    /\ formatted_context = [i \in Invocations |-> None]
    /\ prompt = [i \in Invocations |-> None]
    /\ response = [i \in Invocations |-> None]
    /\ cleaned_response = [i \in Invocations |-> None]
    /\ result = [i \in Invocations |-> None]
    /\ raised = [i \in Invocations |-> NoException]
    /\ searches = [i \in Invocations |-> <<>>]
    /\ invokes = [i \in Invocations |-> <<>>]
    /\ steps = [i \in Invocations |-> <<>>]
    /\ FormatIdle
    /\ CleanIdle
    /\ RestIdle

\* A caller calls get_answer(question[, k]) on a FootballQA, or
\* get_football_answer(faiss_db, question[, k]); a k not given takes the
\* default of the function called.
Call(i) ==
    /\ pc[i] = "idle"
    /\ \E via \in EntryPoints, question \in Questions, kArgs \in KArgs :
          /\ call' = [call EXCEPT ![i] =
                         [question |-> question, kArgs |-> kArgs]]
          /\ IF via = "get_football_answer"
             THEN /\ k' = [k EXCEPT ![i] =
                             <<IF kArgs = <<>> THEN GetFootballAnswerDefaultK
                               ELSE kArgs[1]>>]
                  /\ pc' = [pc EXCEPT ![i] = "construct"]
             ELSE /\ k' = [k EXCEPT ![i] =
                             <<IF kArgs = <<>> THEN GetAnswerDefaultK
                               ELSE kArgs[1]>>]
                  /\ pc' = [pc EXCEPT ![i] = "retrieve"]
    /\ UNCHANGED <<faiss_db, context_docs, formatted_context, prompt, response,
                   cleaned_response, result, raised, searches, invokes, steps,
                   formatVars, cleanVars, restVars>>

\* get_football_answer: qa_system = FootballQA(faiss_db), then
\* qa_system.get_answer(question, k). The constructor builds the model
\* client, which may raise.
Construct(i) ==
    /\ pc[i] = "construct"
    /\ \/ /\ pc' = [pc EXCEPT ![i] = "retrieve"]
          /\ UNCHANGED raised
       \/ \E e \in ConstructFailures :
             /\ raised' = [raised EXCEPT ![i] = e]
             /\ pc' = [pc EXCEPT ![i] = "error"]
    /\ UNCHANGED <<faiss_db, call, k, context_docs, formatted_context, prompt,
                   response, cleaned_response, result, searches, invokes, steps,
                   formatVars, cleanVars, restVars>>

\* A slip: a cache in front of the index, which answers a question another
\* invocation has already asked with that invocation's passages.
Retrieve_Cached(i) ==
    /\ pc[i] = "retrieve"
    /\ steps' = [steps EXCEPT ![i] = Append(@, "RETRIEVE")]
    /\ IF \E j \in Invocations :
              /\ searches[j] # <<>>
              /\ searches[j][1].query = call[i].question
              /\ searches[j][1].raised = NoException
       THEN /\ \E j \in Invocations :
                  /\ searches[j] # <<>>
                  /\ searches[j][1].query = call[i].question
                  /\ searches[j][1].raised = NoException
                  /\ context_docs' =
                        [context_docs EXCEPT ![i] = searches[j][1].returned[1]]
            /\ pc' = [pc EXCEPT ![i] = "format"]
            /\ UNCHANGED <<searches, raised>>
       ELSE \/ \E docs \in SearchResults(faiss_db, call[i].question, k[i][1]) :
                 /\ searches' = [searches EXCEPT ![i] =
                        Append(@, [query |-> call[i].question, k |-> k[i][1],
                                   returned |-> <<docs>>, raised |-> NoException])]
                 /\ context_docs' = [context_docs EXCEPT ![i] = docs]
                 /\ pc' = [pc EXCEPT ![i] = "format"]
                 /\ UNCHANGED raised
            \/ \E e \in IndexFailures :
                 /\ searches' = [searches EXCEPT ![i] =
                        Append(@, [query |-> call[i].question, k |-> k[i][1],
                                   returned |-> <<>>, raised |-> e])]
                 /\ raised' = [raised EXCEPT ![i] = e]
                 /\ pc' = [pc EXCEPT ![i] = "error"]
                 /\ UNCHANGED context_docs
    /\ UNCHANGED <<faiss_db, call, k, formatted_context, prompt, response,
                   cleaned_response, result, invokes,
                   formatVars, cleanVars, restVars>>

\* A slip: the search wrapped in try/except, an empty context standing in
\* for the passages when the index fails.
Retrieve_FallbackOnFailure(i) ==
    /\ pc[i] = "retrieve"
    /\ steps' = [steps EXCEPT ![i] = Append(@, "RETRIEVE")]
    /\ \/ \E docs \in SearchResults(faiss_db, call[i].question, k[i][1]) :
             /\ searches' = [searches EXCEPT ![i] =
                    Append(@, [query |-> call[i].question, k |-> k[i][1],
                               returned |-> <<docs>>, raised |-> NoException])]
             /\ context_docs' = [context_docs EXCEPT ![i] = docs]
       \/ \E e \in IndexFailures :
             /\ searches' = [searches EXCEPT ![i] =
                    Append(@, [query |-> call[i].question, k |-> k[i][1],
                               returned |-> <<>>, raised |-> e])]
             /\ context_docs' = [context_docs EXCEPT ![i] = <<>>]
    /\ pc' = [pc EXCEPT ![i] = "format"]
    /\ UNCHANGED <<faiss_db, call, k, formatted_context, prompt, response,
                   cleaned_response, result, raised, invokes,
                   formatVars, cleanVars, restVars>>

\* context_docs = self.faiss_db.similarity_search(question, k=k)
Retrieve(i) ==
    /\ pc[i] = "retrieve"
    /\ steps' = [steps EXCEPT ![i] = Append(@, "RETRIEVE")]
    /\ \/ \E docs \in SearchResults(faiss_db, call[i].question, k[i][1]) :
             /\ searches' = [searches EXCEPT ![i] =
                    Append(@, [query |-> call[i].question, k |-> k[i][1],
                               returned |-> <<docs>>, raised |-> NoException])]
             /\ context_docs' = [context_docs EXCEPT ![i] = docs]
             /\ pc' = [pc EXCEPT ![i] = "format"]
             /\ UNCHANGED raised
       \/ \E e \in IndexFailures :
             /\ searches' = [searches EXCEPT ![i] =
                    Append(@, [query |-> call[i].question, k |-> k[i][1],
                               returned |-> <<>>, raised |-> e])]
             /\ raised' = [raised EXCEPT ![i] = e]
             /\ pc' = [pc EXCEPT ![i] = "error"]
             /\ UNCHANGED context_docs
    /\ UNCHANGED <<faiss_db, call, k, formatted_context, prompt, response,
                   cleaned_response, result, invokes,
                   formatVars, cleanVars, restVars>>

\* A slip: an empty retrieval treated as an error, as process_videos treats
\* an empty list of transcripts.
Format_RejectsEmpty(i) ==
    /\ pc[i] = "format"
    /\ steps' = [steps EXCEPT ![i] = Append(@, "FORMAT")]
    /\ IF context_docs[i] = <<>>
       THEN /\ raised' = [raised EXCEPT ![i] = "ValueError"]
            /\ pc' = [pc EXCEPT ![i] = "error"]
            /\ UNCHANGED formatted_context
       ELSE /\ formatted_context' =
                  [formatted_context EXCEPT ![i] = _format_context(context_docs[i])]
            /\ pc' = [pc EXCEPT ![i] = "render"]
            /\ UNCHANGED raised
    /\ UNCHANGED <<faiss_db, call, k, context_docs, prompt, response,
                   cleaned_response, result, searches, invokes,
                   formatVars, cleanVars, restVars>>

\* formatted_context = self._format_context(context_docs)
Format(i) ==
    /\ pc[i] = "format"
    /\ steps' = [steps EXCEPT ![i] = Append(@, "FORMAT")]
    /\ formatted_context' =
          [formatted_context EXCEPT ![i] = _format_context(context_docs[i])]
    /\ pc' = [pc EXCEPT ![i] = "render"]
    /\ UNCHANGED <<faiss_db, call, k, context_docs, prompt, response,
                   cleaned_response, result, raised, searches, invokes,
                   formatVars, cleanVars, restVars>>

\* A slip: a conversation memory, the question of an invocation that has
\* already returned put in front of this invocation's question.
Render_KeepsHistory(i) ==
    /\ pc[i] = "render"
    /\ steps' = [steps EXCEPT ![i] = Append(@, "RENDER")]
    /\ prompt' = [prompt EXCEPT ![i] =
          IF \E j \in Invocations : pc[j] = "done"
          THEN LET j == CHOOSE j \in Invocations : pc[j] = "done"
               IN  PromptFormat(formatted_context[i],
                                call[j].question \o <<NL>> \o call[i].question)
          ELSE PromptFormat(formatted_context[i], call[i].question)]
    /\ pc' = [pc EXCEPT ![i] = "generate"]
    /\ UNCHANGED <<faiss_db, call, k, context_docs, formatted_context, response,
                   cleaned_response, result, raised, searches, invokes,
                   formatVars, cleanVars, restVars>>

\* prompt = self.prompt_template.format(context=formatted_context,
\*                                      question=question)
Render(i) ==
    /\ pc[i] = "render"
    /\ steps' = [steps EXCEPT ![i] = Append(@, "RENDER")]
    /\ prompt' = [prompt EXCEPT ![i] =
                     PromptFormat(formatted_context[i], call[i].question)]
    /\ pc' = [pc EXCEPT ![i] = "generate"]
    /\ UNCHANGED <<faiss_db, call, k, context_docs, formatted_context, response,
                   cleaned_response, result, raised, searches, invokes,
                   formatVars, cleanVars, restVars>>

\* A slip: the model call retried once after a failure.
Generate_RetriesOnce(i) ==
    /\ pc[i] = "generate"
    /\ \/ \E content \in Replies(prompt[i]) :
             /\ invokes' = [invokes EXCEPT ![i] =
                    Append(@, [prompt |-> prompt[i], content |-> content,
                               raised |-> NoException])]
             /\ response' = [response EXCEPT ![i] = content]
             /\ pc' = [pc EXCEPT ![i] = "clean"]
             /\ steps' = [steps EXCEPT ![i] = Append(@, "GENERATE")]
             /\ UNCHANGED raised
       \/ \E e \in ModelFailures :
             /\ invokes' = [invokes EXCEPT ![i] =
                    Append(@, [prompt |-> prompt[i], content |-> None,
                               raised |-> e])]
             /\ IF invokes[i] = <<>>
                THEN UNCHANGED <<raised, pc, steps>>
                ELSE /\ raised' = [raised EXCEPT ![i] = e]
                     /\ pc' = [pc EXCEPT ![i] = "error"]
                     /\ steps' = [steps EXCEPT ![i] = Append(@, "GENERATE")]
             /\ UNCHANGED response
    /\ UNCHANGED <<faiss_db, call, k, context_docs, formatted_context, prompt,
                   cleaned_response, result, searches,
                   formatVars, cleanVars, restVars>>

\* response = self.llm.invoke(prompt)
Generate(i) ==
    /\ pc[i] = "generate"
    /\ steps' = [steps EXCEPT ![i] = Append(@, "GENERATE")]
    /\ \/ \E content \in Replies(prompt[i]) :
             /\ invokes' = [invokes EXCEPT ![i] =
                    Append(@, [prompt |-> prompt[i], content |-> content,
                               raised |-> NoException])]
             /\ response' = [response EXCEPT ![i] = content]
             /\ pc' = [pc EXCEPT ![i] = "clean"]
             /\ UNCHANGED raised
       \/ \E e \in ModelFailures :
             /\ invokes' = [invokes EXCEPT ![i] =
                    Append(@, [prompt |-> prompt[i], content |-> None,
                               raised |-> e])]
             /\ raised' = [raised EXCEPT ![i] = e]
             /\ pc' = [pc EXCEPT ![i] = "error"]
             /\ UNCHANGED response
    /\ UNCHANGED <<faiss_db, call, k, context_docs, formatted_context, prompt,
                   cleaned_response, result, searches,
                   formatVars, cleanVars, restVars>>

\* cleaned_response = self._clean_response(response.content)
Clean(i) ==
    /\ pc[i] = "clean"
    /\ steps' = [steps EXCEPT ![i] = Append(@, "CLEAN")]
    /\ cleaned_response' =
          [cleaned_response EXCEPT ![i] = _clean_response(response[i])]
    /\ pc' = [pc EXCEPT ![i] = "return"]
    /\ UNCHANGED <<faiss_db, call, k, context_docs, formatted_context, prompt,
                   response, result, raised, searches, invokes,
                   formatVars, cleanVars, restVars>>

\* A slip: the raw completion returned, `return response.content`.
Return_RawResponse(i) ==
    /\ pc[i] = "return"
    /\ steps' = [steps EXCEPT ![i] = Append(@, "RETURN")]
    /\ result' = [result EXCEPT ![i] = response[i]]
    /\ pc' = [pc EXCEPT ![i] = "done"]
    /\ UNCHANGED <<faiss_db, call, k, context_docs, formatted_context, prompt,
                   response, cleaned_response, raised, searches, invokes,
                   formatVars, cleanVars, restVars>>

\* return cleaned_response
Return(i) ==
    /\ pc[i] = "return"
    /\ steps' = [steps EXCEPT ![i] = Append(@, "RETURN")]
    /\ result' = [result EXCEPT ![i] = cleaned_response[i]]
    /\ pc' = [pc EXCEPT ![i] = "done"]
    /\ UNCHANGED <<faiss_db, call, k, context_docs, formatted_context, prompt,
                   response, cleaned_response, raised, searches, invokes,
                   formatVars, cleanVars, restVars>>

Next ==
    \E i \in Invocations :
        \/ Call(i)
        \/ Construct(i)
        \/ Retrieve(i)
        \/ Format(i)
        \/ Render(i)
        \/ Generate(i)
        \/ Clean(i)
        \/ Return(i)

Spec == Init /\ [][Next]_vars

---------------------------------------------------------------------------
(* The pure functions as state machines: an input is drawn, the function   *)
(* is applied.                                                             *)

InitFormat ==
    /\ fDocs \in SeqsUpTo(PageContents, MaxDocs)
    /\ fOut = <<>>
    /\ fPc = "input"
    /\ CleanIdle
    /\ PipelineIdle
    /\ RestIdle

FormatContext ==
    /\ fPc = "input"
    /\ fOut' = _format_context(fDocs)
    /\ fPc' = "done"
    /\ UNCHANGED <<fDocs, cleanVars, pipelineVars, restVars>>

NextFormat == FormatContext

SpecFormat == InitFormat /\ [][NextFormat]_vars

InitClean ==
    /\ cRaw \in RawResponses
    /\ cOut = <<>>
    /\ cOut2 = <<>>
    /\ cPc = "input"
    /\ FormatIdle
    /\ PipelineIdle
    /\ RestIdle

CleanResponse ==
    /\ cPc = "input"
    /\ cOut' = _clean_response(cRaw)
    /\ cPc' = "cleaned"
    /\ UNCHANGED <<cRaw, cOut2, formatVars, pipelineVars, restVars>>

CleanAgain ==
    /\ cPc = "cleaned"
    /\ cOut2' = _clean_response(cOut)
    /\ cPc' = "recleaned"
    /\ UNCHANGED <<cRaw, cOut, formatVars, pipelineVars, restVars>>

NextClean == CleanResponse \/ CleanAgain

SpecClean == InitClean /\ [][NextClean]_vars

---------------------------------------------------------------------------
(* get_answer for a question that is not about football: the model replies *)
(* with the fallback sentence of the prompt template.                      *)

\* The sentence the template tells the model to respond with.
FallbackSentence ==
    <<"I", "k", SP, "k", "a", "n", SP, "a", "l", "l", "e", "e", "n", SP,
      "v", "r", "a", "g", "e", "n", SP, "o", "v", "e", "r", SP, "v", "o",
      "e", "t", "b", "a", "l", SP, "b", "e", "a", "n", "t", "w", "o", "o",
      "r", "d", "e", "n", ".", SP, "S", "t", "e", "l", SP, "g", "e", "r",
      "u", "s", "t", SP, "e", "e", "n", SP, "v", "r", "a", "a", "g", SP,
      "o", "v", "e", "r", SP, "A", "j", "a", "x", "'", "s", SP, "t", "a",
      "c", "t", "i", "e", "k", "!">>

\* The text test_non_football_question looks for in the answer.
FallbackNeedle ==
    <<"I", "k", SP, "k", "a", "n", SP, "a", "l", "l", "e", "e", "n", SP,
      "v", "r", "a", "g", "e", "n", SP, "o", "v", "e", "r", SP, "v", "o",
      "e", "t", "b", "a", "l", SP, "b", "e", "a", "n", "t", "w", "o", "o",
      "r", "d", "e", "n">>

\* The line breaks a reply may carry, and how one is put at a position that
\* holds a space: before the space, or in its place.
LineBreaks == { <<NL>>, <<"\r", NL>> }
BreakStyles == {"insert", "replace"}

\* The whitespace a reply may carry before and after its text.
Paddings ==
    { <<<<>>, <<>>>>,
      <<<<NL, SP, SP>>, <<SP, "\t", NL>>>> }

\* The sets of at most n positions of s, the position after its end included.
BreakSets(s, n) ==
    { {ps[q] : q \in 1..Len(ps)} : ps \in SeqsUpTo(1..(Len(s) + 1), n) }

\* s with the line break br put before each position of B (from the last
\* position backwards, so that the earlier positions stay where they are).
RECURSIVE WithBreaks(_, _, _, _)
WithBreaks(s, B, br, style) ==
    IF B = {} THEN s
    ELSE LET p == SetMax(B)
             from == IF style = "replace" /\ p <= Len(s) /\ s[p] = SP
                     THEN p + 1 ELSE p
         IN  WithBreaks(SubSeq(s, 1, p - 1), B \ {p}, br, style)
                \o br \o SubSeq(s, from, Len(s))

\* The replies of the model that are the fallback sentence: the sentence
\* with line breaks anywhere in it and whitespace around it.
FallbackReplies ==
    { pad[1] \o WithBreaks(FallbackSentence, B, br, style) \o pad[2] :
        B \in BreakSets(FallbackSentence, MaxBreaks),
        br \in LineBreaks, style \in BreakStyles, pad \in Paddings }

InitFallback ==
    /\ nfReply = <<>>
    /\ nfAnswer = <<>>
    /\ nfPc = "idle"
    /\ FormatIdle
    /\ CleanIdle
    /\ PipelineIdle
    /\ VideosIdle
    /\ AppIdle

\* get_answer up to response = self.llm.invoke(prompt): the model replies
\* with the fallback sentence.
InvokeOffTopic ==
    /\ nfPc = "idle"
    /\ \E content \in FallbackReplies : nfReply' = content
    /\ nfPc' = "replied"
    /\ UNCHANGED <<nfAnswer, formatVars, cleanVars, pipelineVars, videoVars,
                   appVars>>

\* cleaned_response = self._clean_response(response.content)
\* return cleaned_response
ReturnOffTopic ==
    /\ nfPc = "replied"
    /\ nfAnswer' = _clean_response(nfReply)
    /\ nfPc' = "done"
    /\ UNCHANGED <<nfReply, formatVars, cleanVars, pipelineVars, videoVars,
                   appVars>>

NextFallback == InvokeOffTopic \/ ReturnOffTopic

SpecFallback == InitFallback /\ [][NextFallback]_vars

---------------------------------------------------------------------------
(* YouTubeProcessor.process_videos                                         *)

\* The URLs of a batch (those of test_process_videos); a URL may be listed
\* more than once.
VideoUrls ==
    { "https://www.youtube.com/watch?v=test1",
      "https://www.youtube.com/watch?v=test2" }

\* A transcript Document is the URL it came from and its text, a short one
\* or one longer than a chunk.
Transcript(url, text) == <<url, text>>

\* _load_video_transcript(url): what loader.load() returned, a list of
\* Documents that may be empty, or None when the loader raised (the
\* exception is printed and swallowed).
_load_video_transcript(url) ==
    { NoDocs,
      <<>>,
      <<Transcript(url, "short")>>,
      <<Transcript(url, "long"), Transcript(url, "short")>> }

\* `if documents:` for a value _load_video_transcript returned.
Truthy(docs) == docs # NoDocs /\ docs # <<>>

\* The chunks the text splitter makes of one Document: a long text gives
\* two, a short one gives one.
ChunksOf(doc) ==
    IF doc[2] = "long"
    THEN << <<doc[1], doc[2], "1">>, <<doc[1], doc[2], "2">> >>
    ELSE << <<doc[1], doc[2], "1">> >>

\* _split_transcripts(documents): text_splitter.split_documents(documents),
\* the chunks of each Document, in the order of the Documents.
RECURSIVE _split_transcripts(_)
_split_transcripts(docs) ==
    IF docs = <<>> THEN <<>>
    ELSE ChunksOf(Head(docs)) \o _split_transcripts(Tail(docs))

\* The exceptions FAISS.from_documents (which calls the embedding model) and
\* save_local may raise.
BuildFailures == {"EmbeddingError"}
SaveFailures == {"OSError"}

InitVideos ==
    /\ video_urls \in SeqsUpTo(VideoUrls, MaxUrls)
    /\ vIdx = 0
    /\ all_transcripts = <<>>
    /\ chunks = NoDocs
    /\ built_db = NoDocs
    /\ loads = <<>>
    /\ builds = <<>>
    /\ saves = <<>>
    /\ vRaised = NoException
    /\ vPc = "load"
    /\ FormatIdle
    /\ CleanIdle
    /\ PipelineIdle
    /\ FallbackIdle
    /\ AppIdle

\* A slip: _load_video_transcript without its try/except, so that a video
\* that fails to load ends the batch.
LoadNext_AbortsOnFailure ==
    /\ vPc = "load"
    /\ vIdx < Len(video_urls)
    /\ \E docs \in _load_video_transcript(video_urls[vIdx + 1]) :
          /\ loads' = Append(loads, docs)
          /\ all_transcripts' =
                IF Truthy(docs) THEN all_transcripts \o docs
                ELSE all_transcripts
          /\ IF docs = NoDocs
             THEN vRaised' = "TranscriptError" /\ vPc' = "error"
             ELSE UNCHANGED <<vRaised, vPc>>
    /\ vIdx' = vIdx + 1
    /\ UNCHANGED <<video_urls, chunks, built_db, builds, saves,
                   formatVars, cleanVars, pipelineVars, fallbackVars,
                   appVars>>

\* One pass of the for loop:
\*     documents = self._load_video_transcript(url)
\*     if documents: all_transcripts.extend(documents)
LoadNext ==
    /\ vPc = "load"
    /\ vIdx < Len(video_urls)
    /\ \E docs \in _load_video_transcript(video_urls[vIdx + 1]) :
          /\ loads' = Append(loads, docs)
          /\ all_transcripts' =
                IF Truthy(docs) THEN all_transcripts \o docs
                ELSE all_transcripts
    /\ vIdx' = vIdx + 1
    /\ UNCHANGED <<video_urls, chunks, built_db, builds, saves, vRaised, vPc,
                   formatVars, cleanVars, pipelineVars, fallbackVars,
                   appVars>>

\* A slip: the check `if not all_transcripts` left out.
SplitOrRaise_NoCheck ==
    /\ vPc = "load"
    /\ vIdx = Len(video_urls)
    /\ chunks' = _split_transcripts(all_transcripts)
    /\ vPc' = "build"
    /\ UNCHANGED <<video_urls, vIdx, all_transcripts, built_db, loads, builds,
                   saves, vRaised,
                   formatVars, cleanVars, pipelineVars, fallbackVars,
                   appVars>>

\* After the loop:
\*     if not all_transcripts: raise ValueError(...)
\*     chunks = self._split_transcripts(all_transcripts)
SplitOrRaise ==
    /\ vPc = "load"
    /\ vIdx = Len(video_urls)
    /\ IF all_transcripts = <<>>
       THEN /\ vRaised' = "ValueError"
            /\ vPc' = "error"
            /\ UNCHANGED chunks
       ELSE /\ chunks' = _split_transcripts(all_transcripts)
            /\ vPc' = "build"
            /\ UNCHANGED vRaised
    /\ UNCHANGED <<video_urls, vIdx, all_transcripts, built_db, loads, builds,
                   saves, formatVars, cleanVars, pipelineVars, fallbackVars,
                   appVars>>

\* db = FAISS.from_documents(chunks, self.embeddings)
Build ==
    /\ vPc = "build"
    /\ \/ /\ builds' = Append(builds, [documents |-> chunks,
                                       raised |-> NoException])
          /\ built_db' = chunks
          /\ vPc' = "save"
          /\ UNCHANGED vRaised
       \/ \E e \in BuildFailures :
             /\ builds' = Append(builds, [documents |-> chunks, raised |-> e])
             /\ vRaised' = e
             /\ vPc' = "error"
             /\ UNCHANGED built_db
    /\ UNCHANGED <<video_urls, vIdx, all_transcripts, chunks, loads, saves,
                   formatVars, cleanVars, pipelineVars, fallbackVars,
                   appVars>>

\* db.save_local(self.output_dir)
Save ==
    /\ vPc = "save"
    /\ \/ /\ saves' = Append(saves, [db |-> built_db, raised |-> NoException])
          /\ vPc' = "done"
          /\ UNCHANGED vRaised
       \/ \E e \in SaveFailures :
             /\ saves' = Append(saves, [db |-> built_db, raised |-> e])
             /\ vRaised' = e
             /\ vPc' = "error"
    /\ UNCHANGED <<video_urls, vIdx, all_transcripts, chunks, built_db, loads,
                   builds, formatVars, cleanVars, pipelineVars, fallbackVars,
                   appVars>>

NextVideos == LoadNext \/ SplitOrRaise \/ Build \/ Save

SpecVideos == InitVideos /\ [][NextVideos]_vars

---------------------------------------------------------------------------
(* The web app: main, display_question_form and process_question.          *)

\* The message process_question stores when it catches an exception.
FailureMessage ==
    <<"S", "o", "r", "r", "y", ",", SP, "e", "r", SP, "i", "s", SP, "e",
      "e", "n", SP, "f", "o", "u", "t", SP, "o", "p", "g", "e", "t", "r",
      "e", "d", "e", "n", SP, "b", "i", "j", SP, "h", "e", "t", SP, "v",
      "e", "r", "w", "e", "r", "k", "e", "n", SP, "v", "a", "n", SP, "j",
      "e", SP, "v", "r", "a", "a", "g", ".", SP, "P", "r", "o", "b", "e",
      "e", "r", SP, "h", "e", "t", SP, "l", "a", "t", "e", "r", SP, "o",
      "p", "n", "i", "e", "u", "w", ".">>

\* What the user may have typed in the text area when a run starts.
FormTexts ==
    { <<>>,
      <<SP, NL>>,
      <<"H", "o", "w", "?">>,
      <<SP, "W", "h", "y", "?", NL>> }

\* What get_football_answer returns for a question when it does not raise:
\* a text that tells the questions apart, or the empty text.
AnswersTo(q) == { <<>>, <<"A", ":">> \o q }

\* The exceptions OpenAIEmbeddings() or FAISS.load_local may raise, and those
\* that get_football_answer lets through.
LoadFailures == {"LoadError"}
AnswerFailures == ConstructFailures \cup IndexFailures \cup ModelFailures

InitApp ==
    /\ has_api_key \in BOOLEAN
    /\ initialized = FALSE
    /\ is_loading = FALSE
    /\ session_response = <<>>
    /\ runs = 0
    /\ rerun = FALSE
    /\ submit_button = FALSE
    /\ typed = <<>>
    /\ main_question = None
    /\ atForm = <<>>
    /\ processed = <<>>
    /\ loadRaised = NoException
    /\ answers = <<>>
    /\ aPc = "idle"
    /\ FormatIdle
    /\ CleanIdle
    /\ PipelineIdle
    /\ FallbackIdle
    /\ VideosIdle

\* A run of the script starts (a user interaction, or st.rerun()): main up
\* to display_header. validate_api_key stops the run when there is no key;
\* initialize_session_state sets the keys the session does not hold yet.
StartRun ==
    /\ aPc \in {"idle", "rerun"}
    /\ runs < MaxRuns
    /\ runs' = runs + 1
    /\ rerun' = (aPc = "rerun")
    /\ submit_button' = FALSE
    /\ typed' = <<>>
    /\ main_question' = None
    /\ atForm' = <<>>
    /\ processed' = <<>>
    /\ loadRaised' = NoException
    /\ answers' = <<>>
    /\ IF ~has_api_key
       THEN /\ aPc' = "idle"
            /\ UNCHANGED <<initialized, is_loading, session_response>>
       ELSE /\ aPc' = "form"
            /\ initialized' = TRUE
            /\ IF initialized
               THEN UNCHANGED <<is_loading, session_response>>
               ELSE is_loading' = FALSE /\ session_response' = <<>>
    /\ UNCHANGED <<has_api_key, formatVars, cleanVars, pipelineVars, fallbackVars,
                   videoVars>>

\* A slip: the test of the form written `if submit_button and question:`,
\* with the untrimmed text.
DisplayForm_TestsUntrimmed ==
    /\ aPc = "form"
    /\ atForm' = <<is_loading, session_response>>
    /\ \E pressed \in (IF rerun THEN {FALSE} ELSE BOOLEAN), text \in FormTexts :
          /\ submit_button' = pressed
          /\ typed' = text
          /\ IF pressed /\ text # <<>>
             THEN /\ is_loading' = TRUE
                  /\ session_response' = <<>>
                  /\ main_question' = Strip(text)
             ELSE /\ main_question' = None
                  /\ UNCHANGED <<is_loading, session_response>>
          /\ IF pressed /\ text # <<>> /\ Strip(text) # <<>>
             THEN aPc' = "load" /\ processed' = Append(processed, Strip(text))
             ELSE aPc' = "display" /\ UNCHANGED processed
    /\ UNCHANGED <<has_api_key, initialized, runs, rerun, loadRaised, answers,
                   formatVars, cleanVars, pipelineVars, fallbackVars,
                   videoVars>>

\* question = display_question_form(), then main up to the call of
\* process_question: the form returns question.strip() when the button was
\* pressed and the trimmed text is not empty, and None otherwise; main calls
\* process_question(question) when the form returned a text. A run started
\* by st.rerun() has no form submission.
DisplayForm ==
    /\ aPc = "form"
    /\ atForm' = <<is_loading, session_response>>
    /\ \E pressed \in (IF rerun THEN {FALSE} ELSE BOOLEAN), text \in FormTexts :
          /\ submit_button' = pressed
          /\ typed' = text
          /\ IF pressed /\ Strip(text) # <<>>
             THEN /\ is_loading' = TRUE
                  /\ session_response' = <<>>
                  /\ main_question' = Strip(text)
                  /\ processed' = Append(processed, Strip(text))
                  /\ aPc' = "load"
             ELSE /\ main_question' = None
                  /\ aPc' = "display"
                  /\ UNCHANGED <<is_loading, session_response, processed>>
    /\ UNCHANGED <<has_api_key, initialized, runs, rerun, loadRaised, answers,
                   formatVars, cleanVars, pipelineVars, fallbackVars,
                   videoVars>>

\* process_question, the index loading: embeddings = OpenAIEmbeddings() and
\* faiss_db = FAISS.load_local(...). An exception is caught: the failure
\* message is stored, and the finally clause resets is_loading and reruns.
LoadIndex ==
    /\ aPc = "load"
    /\ \/ /\ aPc' = "answer"
          /\ UNCHANGED <<loadRaised, is_loading, session_response>>
       \/ \E e \in LoadFailures :
             /\ loadRaised' = e
             /\ session_response' = FailureMessage
             /\ is_loading' = FALSE
             /\ aPc' = "rerun"
    /\ UNCHANGED <<has_api_key, initialized, runs, rerun, submit_button, typed,
                   main_question, atForm, processed, answers,
                   formatVars, cleanVars, pipelineVars, fallbackVars,
                   videoVars>>

\* A slip: process_question without its finally clause, is_loading reset
\* only after an answer was stored.
GetAnswer_NoFinally ==
    /\ aPc = "answer"
    /\ \/ \E text \in AnswersTo(main_question) :
             /\ answers' = Append(answers, [question |-> main_question,
                                            returned |-> text,
                                            raised |-> NoException])
             /\ session_response' = text
             /\ is_loading' = FALSE
       \/ \E e \in AnswerFailures :
             /\ answers' = Append(answers, [question |-> main_question,
                                            returned |-> None, raised |-> e])
             /\ session_response' = FailureMessage
             /\ UNCHANGED is_loading
    /\ aPc' = "rerun"
    /\ UNCHANGED <<has_api_key, initialized, runs, rerun, submit_button, typed,
                   main_question, atForm, processed, loadRaised,
                   formatVars, cleanVars, pipelineVars, fallbackVars,
                   videoVars>>

\* process_question, the answer: response = get_football_answer(faiss_db,
\* question) and st.session_state.response = response; an exception is
\* caught and the failure message stored; the finally clause resets
\* is_loading and reruns.
GetAnswer ==
    /\ aPc = "answer"
    /\ \/ \E text \in AnswersTo(main_question) :
             /\ answers' = Append(answers, [question |-> main_question,
                                            returned |-> text,
                                            raised |-> NoException])
             /\ session_response' = text
       \/ \E e \in AnswerFailures :
             /\ answers' = Append(answers, [question |-> main_question,
                                            returned |-> None, raised |-> e])
             /\ session_response' = FailureMessage
    /\ is_loading' = FALSE
    /\ aPc' = "rerun"
    /\ UNCHANGED <<has_api_key, initialized, runs, rerun, submit_button, typed,
                   main_question, atForm, processed, loadRaised,
                   formatVars, cleanVars, pipelineVars, fallbackVars,
                   videoVars>>

\* The rest of main when the form returned no question: display_response
\* and display_footer; the run ends.
DisplayResponse ==
    /\ aPc = "display"
    /\ aPc' = "idle"
    /\ UNCHANGED <<has_api_key, initialized, is_loading, session_response, runs,
                   rerun, submit_button, typed, main_question, atForm,
                   processed, loadRaised, answers,
                   formatVars, cleanVars, pipelineVars, fallbackVars,
                   videoVars>>

NextApp == StartRun \/ DisplayForm \/ LoadIndex \/ GetAnswer \/ DisplayResponse

SpecApp == InitApp /\ [][NextApp]_vars

---------------------------------------------------------------------------
(* Properties of _format_context (specification SpecFormat).               *)

\* The text the contract describes for passages P, built from the last
\* passage backwards: the entries "Source n:\n" + P[n], a blank line between.
OneToNine == <<"1", "2", "3", "4", "5", "6", "7", "8", "9">>

RECURSIVE ContractContext(_)
ContractContext(P) ==
    IF P = <<>> THEN <<>>
    ELSE LET n == Len(P)
             before == ContractContext(SubSeq(P, 1, n - 1))
         IN  (IF n = 1 THEN <<>> ELSE before \o <<NL, NL>>)
                \o SourceLabel \o <<OneToNine[n]>> \o <<":", NL>> \o P[n]

\* C1: for every sequence of passages, the empty one included,
\* _format_context returns the entries "Source {i+1}:\n{content_i}" in the
\* input order joined by "\n\n"; the empty sequence gives the empty string
\* and the two passages of test_format_context give the test's expected text.
C1_FormatContextIsContract ==
    fPc = "done" =>
        /\ fOut = ContractContext(fDocs)
        /\ (fDocs = <<>> => fOut = <<>>)
        /\ (fDocs = <<TestContent1, TestContent2>> => fOut = TestFormattedContext)

C1_Witness ==
    /\ fPc = "done"
    /\ fDocs = <<TestContent1, TestContent2>>
    /\ fOut = TestFormattedContext

\* Where entry i of the formatted text starts, and the length of its label.
LabelLen(i) == Len(SourceLabel) + Len(IntToStr(i)) + 2

RECURSIVE EntryStart(_, _)
EntryStart(P, i) ==
    IF i = 1 THEN 1
    ELSE EntryStart(P, i - 1) + LabelLen(i - 1) + Len(P[i - 1]) + 2

\* The j-th smallest element of a finite set of integers.
RECURSIVE NthSmallest(_, _)
NthSmallest(S, j) ==
    LET m == CHOOSE x \in S : \A y \in S : x <= y
    IN  IF j = 1 THEN m ELSE NthSmallest(S \ {m}, j - 1)

\* The occurrences of "Source " in the formatted text are numbered 1..n in
\* order: the j-th is followed by the decimal j and ":\n".
NumberedInOrder(out, n) ==
    LET occ == Occurrences(out, SourceLabel)
    IN  /\ Cardinality(occ) = n
        /\ \A j \in 1..n :
              MatchesAt(out, SourceLabel \o IntToStr(j) \o <<":", NL>>,
                        NthSmallest(occ, j))

\* C2 as stated: whatever the passages hold, the formatted text has exactly
\* len(P) occurrences of "Source ", numbered 1..len(P) in order.
C2_ExactlyLenLabels ==
    fPc = "done" => NumberedInOrder(fOut, Len(fDocs))

\* C2 as amended: the occurrences of "Source " in the formatted text are the
\* len(P) labels, entry i starting with "Source i:\n", and the occurrences
\* inside the passages, which are copied verbatim; so there are exactly
\* len(P) of them, numbered 1..len(P) in order, when no passage contains
\* "Source ".
C2_LabelsAndVerbatimPassages ==
    fPc = "done" =>
        LET n == Len(fDocs)
            labels == {EntryStart(fDocs, i) : i \in 1..n}
            inside == UNION { { EntryStart(fDocs, i) + LabelLen(i) + q - 1 :
                                  q \in Occurrences(fDocs[i], SourceLabel) } :
                              i \in 1..n }
        IN  /\ Occurrences(fOut, SourceLabel) = labels \cup inside
            /\ Cardinality(labels) = n
            /\ labels \cap inside = {}
            /\ \A i \in 1..n :
                  MatchesAt(fOut, SourceLabel \o IntToStr(i) \o <<":", NL>>,
                            EntryStart(fDocs, i))
            /\ ((\A i \in 1..n : ~Contains(fDocs[i], SourceLabel))
                  => NumberedInOrder(fOut, n))

C2_Witness ==
    /\ fPc = "done"
    /\ Len(fDocs) >= 2
    /\ \E i \in 1..Len(fDocs) : Contains(fDocs[i], SourceLabel)
    /\ Cardinality(Occurrences(fOut, SourceLabel)) > Len(fDocs)

---------------------------------------------------------------------------
(* Properties of _clean_response (specification SpecClean).                *)

\* The text the contract describes for a raw string R before the sentence
\* breaks: split on newlines, trim each line, discard the empty ones, join
\* with one space.
ContractFlat(R) ==
    LET split == Split(R, NL)
        trimmed == [p \in 1..Len(split) |-> Strip(split[p])]
        nonEmpty == SelectSeq(trimmed, LAMBDA line : Len(line) > 0)
    IN  Join(nonEmpty, <<SP>>)

\* out is flat with ".\n\n" wherever ". " stood: every ". " adds one
\* character, so character i of flat lands at i plus the number of ". "
\* before it; the period stays, a newline follows it, and the space becomes
\* a newline.
IsFlatWithBreaks(flat, out) ==
    LET marks == {i \in 1..(Len(flat) - 1) : flat[i] = "." /\ flat[i + 1] = SP}
        At(i) == i + Cardinality({m \in marks : m < i})
    IN  /\ Len(out) = Len(flat) + Cardinality(marks)
        /\ \A i \in 1..Len(flat) :
              IF i \in marks THEN out[At(i)] = "." /\ out[At(i) + 1] = NL
              ELSE IF (i - 1) \in marks THEN out[At(i)] = NL
              ELSE out[At(i)] = flat[i]

\* Every newline of s belongs to a pair of newlines that directly follows a
\* period and is followed by more text.
BreaksOnlyAfterPeriod(s) ==
    \A i \in 1..Len(s) :
        s[i] = NL =>
            \/ i >= 2 /\ i + 1 < Len(s) /\ s[i - 1] = "." /\ s[i + 1] = NL
            \/ i >= 3 /\ i < Len(s) /\ s[i - 1] = NL /\ s[i - 2] = "."

\* C3: _clean_response(R) is R split on newlines, each line trimmed, the
\* empty lines discarded, the rest joined by single spaces and every ". "
\* replaced by ".\n\n"; no break follows "!", "?" or a final period.
C3_CleanIsContract ==
    cPc # "input" =>
        /\ IsFlatWithBreaks(ContractFlat(cRaw), cOut)
        /\ BreaksOnlyAfterPeriod(cOut)
        /\ (cRaw = TestRawResponse => cOut = TestCleanedResponse)

C3_Witness ==
    /\ cPc = "cleaned"
    /\ Len(Split(cRaw, NL)) >= 2
    /\ \E i \in 1..Len(cRaw) : cRaw[i] \in {"!", "?"}
    /\ Contains(cOut, <<".", NL, NL>>)
    /\ cOut # cRaw

\* The lines of a text; the empty text has none.
LinesOf(s) == IF s = <<>> THEN <<>> ELSE Split(s, NL)

NoOuterWhitespace(s) ==
    s # <<>> => s[1] \notin Whitespace /\ s[Len(s)] \notin Whitespace

\* C4 as stated: the cleaned text has no line that is empty after trimming
\* and no leading or trailing whitespace.
C4_NoBlankLine ==
    cPc # "input" =>
        /\ \A p \in 1..Len(LinesOf(cOut)) : Strip(LinesOf(cOut)[p]) # <<>>
        /\ NoOuterWhitespace(cOut)

\* C4 as amended: the cleaned text has no leading or trailing whitespace,
\* and its only lines that are empty after trimming are the blank lines of
\* the ".\n\n" breaks: each is exactly empty, follows a non-blank line that
\* ends in a period and precedes a non-blank line; a cleaned text without
\* such a break has no blank line.
C4_BlankLinesAreBreaks ==
    cPc # "input" =>
        LET lines == LinesOf(cOut)
        IN  /\ NoOuterWhitespace(cOut)
            /\ \A p \in 1..Len(lines) :
                  Strip(lines[p]) = <<>> =>
                      /\ lines[p] = <<>>
                      /\ 1 < p /\ p < Len(lines)
                      /\ Strip(lines[p - 1]) # <<>>
                      /\ lines[p - 1][Len(lines[p - 1])] = "."
                      /\ Strip(lines[p + 1]) # <<>>
            /\ (~Contains(cOut, <<".", NL, NL>>)
                  => \A p \in 1..Len(lines) : Strip(lines[p]) # <<>>)

C4_Witness ==
    /\ cPc = "cleaned"
    /\ cRaw # <<>> /\ cRaw[1] \in Whitespace /\ cRaw[Len(cRaw)] \in Whitespace
    /\ \E p \in 1..Len(LinesOf(cOut)) : LinesOf(cOut)[p] = <<>>

\* C5 as stated: when the cleaned text contains no ". ", cleaning it again
\* changes nothing.
C5_IdempotentWithoutPeriodSpace ==
    (cPc = "recleaned" /\ ~Contains(cOut, <<".", SP>>)) => cOut2 = cOut

NoIndentedLine(s) ==
    \A p \in 1..Len(LinesOf(s)) :
        LinesOf(s)[p] = <<>> \/ LinesOf(s)[p][1] \notin Whitespace

\* C5 as amended: when the cleaned text contains no ". " and none of its
\* lines begins with whitespace, cleaning it again changes nothing.
C5_IdempotentWithoutIndentedLine ==
    (cPc = "recleaned" /\ ~Contains(cOut, <<".", SP>>) /\ NoIndentedLine(cOut))
        => cOut2 = cOut

C5_Witness ==
    /\ cPc = "recleaned"
    /\ ~Contains(cOut, <<".", SP>>)
    /\ NoIndentedLine(cOut)
    /\ Contains(cOut, <<".", NL, NL>>)
    /\ cOut # cRaw
    /\ cOut2 = cOut

---------------------------------------------------------------------------
(* Properties of get_answer (specification Spec).                          *)

IsPrefix(s, t) == Len(s) <= Len(t) /\ s = SubSeq(t, 1, Len(s))

Taken(i, step) == \E p \in 1..Len(steps[i]) : steps[i][p] = step

\* The index answered invocation i's search with the passages docs.
IndexReturned(i, docs) ==
    /\ Len(searches[i]) >= 1
    /\ searches[i][1].raised = NoException
    /\ searches[i][1].returned = <<docs>>

\* The k the caller of invocation i asked for.
CallersK(i) == IF call[i].kArgs = <<>> THEN 4 ELSE call[i].kArgs[1]

\* C6: the steps of an invocation are taken in the order RETRIEVE, FORMAT,
\* RENDER, GENERATE, CLEAN, RETURN: the model is invoked only after the
\* index has answered and the passages were formatted and rendered, the
\* prompt it receives is the template filled with the formatted passages the
\* index returned to this invocation and this invocation's question, and the
\* text returned is the cleaned form of the reply given to this invocation.
C6_StepsInOrder ==
    \A i \in Invocations :
        /\ IsPrefix(steps[i], StepOrder)
        /\ invokes[i] # <<>> =>
              /\ IsPrefix(<<"RETRIEVE", "FORMAT", "RENDER", "GENERATE">>, steps[i])
              /\ Len(searches[i]) = 1
              /\ searches[i][1].raised = NoException
              /\ invokes[i][1].prompt =
                    PromptFormat(_format_context(searches[i][1].returned[1]),
                                 call[i].question)
        /\ pc[i] = "done" =>
              /\ steps[i] = StepOrder
              /\ result[i] = _clean_response(invokes[i][1].content)
        /\ result[i] # None => pc[i] = "done"

C6_Witness ==
    \E i \in Invocations :
        /\ pc[i] = "done"
        /\ Len(searches[i][1].returned[1]) = 2
        /\ result[i] # invokes[i][1].content
        /\ \E j \in Invocations : pc[j] = "generate" /\ call[j] # call[i]

\* C7: an invocation of get_answer queries the index exactly once, with the
\* caller's question as it was given and the caller's k, 4 when the caller
\* gave none (through get_football_answer too); an invocation asking a
\* question asked before queries the index again.
C7_OneSearchPerInvocation ==
    \A i \in Invocations :
        /\ Len(searches[i]) <= 1
        /\ Len(searches[i]) = 1 <=> Taken(i, "RETRIEVE")
        /\ pc[i] \in {"format", "render", "generate", "clean", "return", "done"}
              => Len(searches[i]) = 1
        /\ (pc[i] = "error" /\ raised[i] \notin ConstructFailures)
              => Len(searches[i]) = 1
        /\ pc[i] \in {"construct", "retrieve"} => k[i] = <<CallersK(i)>>
        /\ Len(searches[i]) = 1 =>
              /\ searches[i][1].query = call[i].question
              /\ searches[i][1].k = CallersK(i)

C7_Witness ==
    \E i, j \in Invocations :
        /\ i # j
        /\ pc[i] = "done" /\ pc[j] = "done"
        /\ call[i].question = call[j].question
        /\ call[i].kArgs = <<>> /\ call[j].kArgs = <<1>>
        /\ Len(searches[i]) = 1 /\ Len(searches[j]) = 1
        /\ searches[i][1].k = 4 /\ searches[j][1].k = 1
        /\ searches[i][1].query = searches[j][1].query

\* C8: when the index's search fails, the invocation ends in error with the
\* very failure the index raised: the search was made once, nothing stands
\* in for the passages, the model is not invoked and no text is returned.
C8_SearchFailurePropagates ==
    \A i \in Invocations :
        (Len(searches[i]) >= 1 /\ searches[i][1].raised # NoException) =>
            /\ pc[i] = "error"
            /\ raised[i] = searches[i][1].raised
            /\ Len(searches[i]) = 1
            /\ steps[i] = <<"RETRIEVE">>
            /\ context_docs[i] = NoDocs
            /\ formatted_context[i] = None
            /\ prompt[i] = None
            /\ invokes[i] = <<>>
            /\ result[i] = None

C8_Witness ==
    \E i, j \in Invocations :
        /\ pc[i] = "error"
        /\ Len(searches[i]) = 1
        /\ searches[i][1].raised \in IndexFailures
        /\ raised[i] \in IndexFailures
        /\ pc[j] = "done"

\* C9: the model is invoked at most once per invocation, and when that call
\* fails the invocation ends in error with the failure the model raised: the
\* index is not queried again, nothing is cleaned and no text is returned.
C9_ModelFailurePropagates ==
    \A i \in Invocations :
        /\ Len(invokes[i]) <= 1
        /\ (Len(invokes[i]) >= 1 /\ invokes[i][1].raised # NoException) =>
              /\ pc[i] = "error"
              /\ raised[i] = invokes[i][1].raised
              /\ Len(searches[i]) = 1
              /\ steps[i] = <<"RETRIEVE", "FORMAT", "RENDER", "GENERATE">>
              /\ response[i] = None
              /\ cleaned_response[i] = None
              /\ result[i] = None

C9_Witness ==
    \E i \in Invocations :
        /\ pc[i] = "error"
        /\ Len(invokes[i]) = 1
        /\ invokes[i][1].raised \in ModelFailures
        /\ raised[i] \in ModelFailures
        /\ context_docs[i] # <<>>

\* C10: when the index returns no passage the invocation goes on: no step
\* before the model call fails, the prompt is the template with the empty
\* string as its context, the model is invoked exactly once, and with the
\* model's reply the invocation ends by returning the cleaned reply.
C10_EmptyRetrievalGoesOn ==
    \A i \in Invocations :
        IndexReturned(i, <<>>) =>
            /\ raised[i] \in {NoException} \cup ModelFailures
            /\ pc[i] = "error" =>
                  Len(invokes[i]) = 1 /\ invokes[i][1].raised = raised[i]
            /\ pc[i] = "format" => context_docs[i] = <<>>
            /\ pc[i] \in {"render", "generate", "clean", "return", "done"} =>
                  formatted_context[i] = <<>>
            /\ pc[i] \in {"generate", "clean", "return", "done"} =>
                  prompt[i] = TemplateHead \o TemplateMid \o call[i].question
                                  \o TemplateTail
            /\ pc[i] \in {"clean", "return", "done"} =>
                  /\ Len(invokes[i]) = 1
                  /\ invokes[i][1].prompt = prompt[i]
                  /\ invokes[i][1].raised = NoException
            /\ pc[i] = "done" =>
                  result[i] = _clean_response(invokes[i][1].content)

C10_Witness ==
    \E i \in Invocations :
        /\ IndexReturned(i, <<>>)
        /\ pc[i] = "done"
        /\ Len(invokes[i]) = 1
        /\ result[i] # None

\* The model answered invocation i's call.
ModelReplied(i) ==
    Len(invokes[i]) >= 1 /\ invokes[i][1].raised = NoException

\* C12: invocations are independent. The index is never changed; whatever
\* the other invocations did before or in between, the prompt an invocation
\* sends to the model is the template filled from its own question and the
\* passages the index returned to it, and the answer it returns is the
\* cleaned form of the reply the model gave to it; so two invocations with
\* the same question and the same passages send the same prompt, and with
\* the same reply return the same answer.
C12_InvocationsIndependent ==
    /\ faiss_db = TheIndex
    /\ \A i \in Invocations :
          /\ Len(invokes[i]) >= 1 =>
                /\ IndexReturned(i, context_docs[i])
                /\ invokes[i][1].prompt =
                      PromptFormat(_format_context(context_docs[i]),
                                   call[i].question)
          /\ pc[i] = "done" =>
                /\ ModelReplied(i)
                /\ result[i] = _clean_response(invokes[i][1].content)
    /\ \A i, j \in Invocations :
          /\ ( /\ Len(invokes[i]) >= 1 /\ Len(invokes[j]) >= 1
               /\ call[i].question = call[j].question
               /\ searches[i][1].returned = searches[j][1].returned )
                => invokes[i][1].prompt = invokes[j][1].prompt
          /\ ( /\ pc[i] = "done" /\ pc[j] = "done"
               /\ invokes[i][1].content = invokes[j][1].content )
                => result[i] = result[j]

C12_Witness ==
    \E i, j \in Invocations :
        /\ i # j
        /\ pc[i] = "done" /\ pc[j] = "done"
        /\ call[i].question = call[j].question
        /\ searches[i][1].returned = searches[j][1].returned
        /\ context_docs[i] # <<>>
        /\ invokes[i][1].prompt = invokes[j][1].prompt
        /\ result[i] = result[j]
        /\ faiss_db = TheIndex

---------------------------------------------------------------------------
(* Properties of get_answer on the fallback reply (specification           *)
(* SpecFallback).                                                          *)

\* s.split(): the words of s, the runs of its characters that are not
\* whitespace.
WordsOf(s) ==
    LET begins == {i \in Visible(s) : i = 1 \/ s[i - 1] \in Whitespace}
        ends == {i \in Visible(s) : i = Len(s) \/ s[i + 1] \in Whitespace}
        BeginOf(n) == CHOOSE b \in begins :
                          Cardinality({c \in begins : c < b}) = n - 1
    IN  [n \in 1..Cardinality(begins) |->
            SubSeq(s, BeginOf(n), SetMin({e \in ends : e >= BeginOf(n)}))]

\* C11 as stated: when the model's reply is the fallback sentence, whatever
\* line breaks or surrounding whitespace it carries, the text get_answer
\* returns contains "Ik kan alleen vragen over voetbal beantwoorden".
C11_FallbackAlwaysFound ==
    nfPc = "done" => Contains(nfAnswer, FallbackNeedle)

\* C11 as amended: when the model's reply is the fallback sentence with
\* whitespace around it and line breaks between its words only (beside a
\* space or in its place, none inside a word), the text get_answer returns
\* contains "Ik kan alleen vragen over voetbal beantwoorden"; the text
\* returned is the cleaned reply.
C11_FallbackFoundWhenWordsKept ==
    nfPc = "done" =>
        /\ nfAnswer = _clean_response(nfReply)
        /\ WordsOf(nfReply) = WordsOf(FallbackSentence)
              => Contains(nfAnswer, FallbackNeedle)

C11_Witness ==
    /\ nfPc = "done"
    /\ WordsOf(nfReply) = WordsOf(FallbackSentence)
    /\ \E p \in Occurrences(nfReply, <<NL>>) :
          1 < p /\ p < Len(FallbackNeedle)
    /\ nfReply[1] \in Whitespace
    /\ nfReply[Len(nfReply)] \in Whitespace
    /\ Contains(nfAnswer, FallbackNeedle)

---------------------------------------------------------------------------
(* Properties of process_videos (specification SpecVideos).                *)

\* process_videos has ended: it returned or raised.
VideosEnded == vPc \in {"done", "error"}

\* The loop is over and no URL gave a transcript: every load failed or
\* returned nothing, or there was no URL.
NoTranscriptLoaded ==
    /\ vIdx = Len(video_urls)
    /\ \A p \in 1..Len(loads) : ~Truthy(loads[p])

\* C13: when no transcript was loaded from any of the URLs (every load
\* failed or returned nothing, or the list is empty), process_videos ends by
\* raising ValueError, and neither builds nor saves an index; no index is
\* built or saved while the URLs are still being loaded either.
C13_NoTranscriptsRaises ==
    /\ vPc = "load" => builds = <<>> /\ saves = <<>> /\ vRaised = NoException
    /\ NoTranscriptLoaded =>
          /\ vPc \in {"load", "error"}
          /\ vPc = "error" => vRaised = "ValueError"
          /\ chunks = NoDocs
          /\ built_db = NoDocs
          /\ builds = <<>>
          /\ saves = <<>>

C13_Witness ==
    /\ vPc = "error"
    /\ vRaised = "ValueError"
    /\ Len(video_urls) >= 2
    /\ \E p \in 1..Len(loads) : loads[p] = NoDocs
    /\ \E p \in 1..Len(loads) : loads[p] = <<>>
    /\ builds = <<>>
    /\ saves = <<>>

\* The transcripts that loaded, merged in the order of the URL list.
RECURSIVE Merged(_)
Merged(ls) ==
    IF ls = <<>> THEN <<>>
    ELSE (IF Truthy(Head(ls)) THEN Head(ls) ELSE <<>>) \o Merged(Tail(ls))

SomeTranscriptLoaded == \E p \in 1..Len(loads) : Truthy(loads[p])

\* The index was built once, from the chunks of the transcripts that loaded
\* in the order of the URL list, and saved.
BuiltOnceAndSaved ==
    /\ Len(builds) = 1
    /\ builds[1].raised = NoException
    /\ builds[1].documents = _split_transcripts(Merged(loads))
    /\ Len(saves) = 1
    /\ saves[1].raised = NoException
    /\ saves[1].db = builds[1].documents

---------------------------------------------------------------------------
(* Properties of the web app (specification SpecApp).                      *)

\* process_question was called in this run and has finished.
ProcessFinished == aPc = "rerun"

\* Index loading and get_football_answer both succeeded in this run.
BothSucceeded ==
    /\ loadRaised = NoException
    /\ Len(answers) = 1
    /\ answers[1].raised = NoException

\* C14: after process_question has finished, on any path, is_loading is
\* False; response holds the answer get_football_answer returned when index
\* loading and get_football_answer both succeeded, and the fixed failure
\* message when either of them failed; while the question is being
\* processed response is the empty string, so the answer to the previous
\* question is never what it holds.
C14_ProcessQuestionOutcome ==
    /\ aPc \in {"load", "answer"} =>
          /\ is_loading = TRUE
          /\ session_response = <<>>
          /\ (aPc = "answer" => loadRaised = NoException /\ answers = <<>>)
    /\ aPc \notin {"load", "answer"} => is_loading = FALSE
    /\ ProcessFinished =>
          /\ processed = <<main_question>>
          /\ Len(answers) <= 1
          /\ loadRaised # NoException => answers = <<>>
          /\ loadRaised = NoException =>
                Len(answers) = 1 /\ answers[1].question = main_question
          /\ IF BothSucceeded
             THEN session_response = answers[1].returned
             ELSE session_response = FailureMessage

C14_Witness ==
    /\ ProcessFinished
    /\ runs = 3
    /\ loadRaised = NoException
    /\ Len(answers) = 1
    /\ answers[1].raised \in AnswerFailures
    /\ session_response = FailureMessage
    /\ is_loading = FALSE

\* The form was submitted in this run with a text that is not empty after
\* trimming.
QuestionSubmitted == submit_button /\ Strip(typed) # <<>>

\* C15: in a run in which the form was not submitted, or was submitted with
\* a text that is empty after trimming, process_question and
\* get_football_answer are not called and is_loading and response are what
\* they were when the form was shown; a submitted text that is not blank
\* sets is_loading to True and response to the empty string, and the
\* trimmed text is what process_question and get_football_answer receive.
C15_FormSubmission ==
    /\ ~has_api_key => ~initialized /\ processed = <<>> /\ answers = <<>>
    /\ (atForm # <<>> /\ ~QuestionSubmitted) =>
          /\ aPc \in {"display", "idle"}
          /\ main_question = None
          /\ processed = <<>>
          /\ loadRaised = NoException
          /\ answers = <<>>
          /\ <<is_loading, session_response>> = atForm
    /\ (atForm # <<>> /\ QuestionSubmitted) =>
          /\ aPc \in {"load", "answer", "rerun"}
          /\ main_question = Strip(typed)
          /\ processed = <<Strip(typed)>>
          /\ \A p \in 1..Len(answers) : answers[p].question = Strip(typed)
          /\ aPc = "load" => is_loading = TRUE /\ session_response = <<>>

C15_Witness ==
    /\ aPc = "display"
    /\ submit_button
    /\ typed = <<SP, NL>>
    /\ session_response # <<>>
    /\ session_response # FailureMessage
    /\ <<is_loading, session_response>> = atForm
    /\ answers = <<>>

=============================================================================
